---- MODULE Spec2Model ----
(***************************************************************************)
(* EventStoreConsumer (src/src/index.ts, lines 1-240): the poll / dispatch *)
(* / ack-nack engine of a competing-consumer client.                       *)
(*                                                                         *)
(* One action per callback the event loop can run: the public start() and  *)
(* stop(), the poll timer, the two completions of the GET request, the     *)
(* settling of a handler's promise, the two completions of a POST request, *)
(* the retry timer and the didHandleEvent continuation of queue.add().     *)
(* Every action applies the callback's code, statement by statement, to a  *)
(* record of the consumer's fields and commits the result.                 *)
(***************************************************************************)
EXTENDS Integers, Sequences, FiniteSets, TLC

\* ------------------------------------------------------------------ bounds
MaxConcurrency == 2   \* the `concurrency` option ranges over 1..MaxConcurrency
MaxEvents == 2        \* events the backend delivers in one run

\* ------------------------------------------------------- program constants
Retries == 3          \* ackNackHelper(event, type, retries = 3, ...)
DefaultConcurrency == 1   \* params.concurrency || 1

VARIABLES
    params,        \* the addresses the constructor was given: the
                   \* eventStoreUrl option and process.env.EVENT_STORE_URL,
                   \* "" when not set
    eventStoreUrl, \* this.eventStoreUrl; "" when the constructor threw and
                   \* there is no consumer
    concurrency,   \* this.concurrency
    running,       \* this.running
    polling,       \* this.polling
    pollTimer,     \* this.pollTimer: "none" (unset), "armed" (a timeout is
                   \* pending) or "fired" (the field still holds the handle of
                   \* a timeout that has already run)
    timeouts,      \* the timeouts of schedulePoll() pending in the event loop
    pollTimerSetBy,\* why the pending poll timer was set: "full" (poll() found
                   \* the queue full), "empty" (a GET returned no event),
                   \* "failed" (a GET failed); "none" when no timer is pending
    fetches,       \* the GET requests in flight: the address and the count
                   \* of each one's url
    events,        \* every event submitted to the queue, by id
    waiting,       \* the queue's waiting tasks (queue.size), oldest first
    stopWaiting,   \* some promise returned by stop() is not yet resolved (all
                   \* of them are listeners of 'drain' and resolve together)
    out            \* what the callback that ran last did, in order: hook
                   \* calls, requests issued, timers set, notifications emitted

vars == <<params, eventStoreUrl, concurrency, running, polling, pollTimer,
          timeouts, pollTimerSetBy, fetches, events, waiting, stopWaiting, out>>

\* ------------------------------------------------------------ data model
Uri(rel, id) == [kind |-> rel, id |-> id]
NoUrl == [kind |-> "none", id |-> 0]

\* The link lists a fetched event may carry (relation of each link, in order);
\* the uri of a link is Uri(relation, event id), as in the tests' expectRead.
\* The program reads event.links once, in ackNackHelper: the model draws the
\* list there, when the handler's promise settles, and keeps the uri found.
LinkChoices == {<<"ack", "nack">>, <<"nack", "ack">>, <<"nack">>, <<"ack">>, <<>>}

\* An entry of a fetch response, as far as the program's control depends on it
\* before the handler settles: whether the user's handler raises when it is
\* called with this event.
EntryChoices == [raises : BOOLEAN]

E(op, arg) == [op |-> op, arg |-> arg]

NewEvent(entry) ==
    [raises |-> entry.raises,
     stage |-> "queued",    \* queued, handling, posting, retryWait, settled, done
     outcome |-> "none",    \* of the handler: none, resolved, rejected, threw
     type |-> "none",       \* of the running ackNackHelper call
     url |-> NoUrl,         \* of the running ackNackHelper call
     retryCount |-> 0,      \* of the running ackNackHelper call
     result |-> "none",     \* of ackNackHelper: none, ok, nolink, failed
     seen |-> 0,            \* onEvent calls
     calls |-> 0,           \* handler invocations
     acks |-> 0,            \* ack() calls
     nacks |-> 0,           \* nack() calls
     posts |-> 0,           \* POST requests issued
     postedTo |-> {},       \* urls they were issued to
     errs |-> 0,            \* onError calls with the handler's error
     ackErrs |-> 0,         \* onError calls with a POST's error
     notified |-> FALSE]    \* didHandleEvent ran for the event

\* The consumer's fields as one record, as callback `op` starts to run: the
\* log holds the callback's name and argument.
Begin(op, arg) ==
    [running |-> running, polling |-> polling, pollTimer |-> pollTimer,
     timeouts |-> timeouts, pollTimerSetBy |-> pollTimerSetBy,
     fetches |-> fetches, events |-> events, waiting |-> waiting,
     stopWaiting |-> stopWaiting, out |-> <<E(op, arg)>>]

\* The callbacks are those of a consumer: one whose constructor returned.
Commit(s) ==
    /\ eventStoreUrl # ""
    /\ UNCHANGED <<params, eventStoreUrl>>
    /\ running' = s.running
    /\ polling' = s.polling
    /\ pollTimer' = s.pollTimer
    /\ timeouts' = s.timeouts
    /\ pollTimerSetBy' = s.pollTimerSetBy
    /\ fetches' = s.fetches
    /\ events' = s.events
    /\ waiting' = s.waiting
    /\ stopWaiting' = s.stopWaiting
    /\ out' = s.out
    /\ concurrency' = concurrency

Log(s, op, arg) == [s EXCEPT !.out = Append(@, E(op, arg))]

\* The state as a record, for the state functions below.
Now ==
    [running |-> running, polling |-> polling, pollTimer |-> pollTimer,
     timeouts |-> timeouts, pollTimerSetBy |-> pollTimerSetBy,
     fetches |-> fetches, events |-> events, waiting |-> waiting,
     stopWaiting |-> stopWaiting, out |-> out]

\* --------------------------------------------------------------- p-queue
\* queue.pending: tasks started and not ended.
PendingIds(s) ==
    {i \in DOMAIN s.events : s.events[i].stage \in {"handling", "posting", "retryWait"}}

QueuePending(s) == Cardinality(PendingIds(s))

QueueSize(s) == Len(s.waiting)

GetQueueLength(s) == QueueSize(s) + QueuePending(s)

\* (a queue constructed without the concurrency option)
QueueConcurrencyUnbounded == MaxEvents + 1

\* new PQueue({concurrency: this.concurrency})
QueueConcurrency == concurrency


\* ---------------------------------------------------------------- poller
\* The call site of schedulePoll() in the running callback: the else branch of
\* the GET's then callback, its rejection callback, or poll().
Caller(s) ==
    IF s.out[1] = E("fetched", 0) THEN "empty"
    ELSE IF s.out[1].op = "fetchFailed" THEN "failed"
    ELSE "full"

\* (a schedulePoll() without `if (this.pollTimer) return`)
SchedulePollUnguarded(s) ==
    Log([s EXCEPT !.pollTimer = "armed", !.timeouts = @ + 1,
                  !.pollTimerSetBy = Caller(s)],
        "setTimeout", 0)

\* schedulePoll(): the guard reads the field, which clearTimeout/delete alone
\* reset; a timeout that has fired leaves its handle in the field.
SchedulePoll(s) ==
    IF s.pollTimer # "none"
    THEN s
    ELSE Log([s EXCEPT !.pollTimer = "armed", !.timeouts = @ + 1,
                       !.pollTimerSetBy = Caller(s)],
             "setTimeout", 0)

\* cancelScheduledPoll(): clearTimeout() removes the timeout of the handle if
\* it is still pending, and the field is deleted.
CancelScheduledPoll(s) ==
    [s EXCEPT !.pollTimer = "none",
              !.timeouts = IF s.pollTimer = "armed" THEN @ - 1 ELSE @,
              !.pollTimerSetBy = "none"]

\* `${this.eventStoreUrl}/subscriptions/${this.stream}/${this.group}/${count}?embed=Body`
GetUrl(count) == [base |-> eventStoreUrl, count |-> count]

\* (a poll() that counts the events with their handler, not those with their
\* acknowledgment)
PollCountsHandlersOnly(s) ==
    LET handling == {i \in DOMAIN s.events : s.events[i].stage = "handling"}
        count == concurrency - (QueueSize(s) + Cardinality(handling)) IN
    IF count <= 0 THEN SchedulePoll(s)
    ELSE IF s.polling THEN s
    ELSE LET s1 == CancelScheduledPoll([s EXCEPT !.polling = TRUE])
         IN  Log([s1 EXCEPT !.fetches = Append(@, GetUrl(count))], "GET", count)

\* (a poll() that gives up on a negative count only)
PollAsksForZero(s) ==
    LET count == concurrency - GetQueueLength(s) IN
    IF count < 0 THEN SchedulePoll(s)
    ELSE IF s.polling THEN s
    ELSE LET s1 == CancelScheduledPoll([s EXCEPT !.polling = TRUE])
         IN  Log([s1 EXCEPT !.fetches = Append(@, GetUrl(count))], "GET", count)

\* (a poll() without `if (this.polling) return`)
PollUnguarded(s) ==
    LET count == concurrency - GetQueueLength(s) IN
    IF count <= 0 THEN SchedulePoll(s)
    ELSE LET s1 == CancelScheduledPoll([s EXCEPT !.polling = TRUE])
         IN  Log([s1 EXCEPT !.fetches = Append(@, GetUrl(count))], "GET", count)

\* poll()
Poll(s) ==
    LET count == concurrency - GetQueueLength(s) IN
    IF count <= 0 THEN SchedulePoll(s)
    ELSE IF s.polling THEN s
    ELSE LET s1 == CancelScheduledPoll([s EXCEPT !.polling = TRUE])
         IN  Log([s1 EXCEPT !.fetches = Append(@, GetUrl(count))], "GET", count)

\* this.emit('drain'): every listener stop() registered resolves its promise.
EmitDrain(s) ==
    LET s1 == Log(s, "drain", 0) IN
    IF s1.stopWaiting
    THEN Log([s1 EXCEPT !.stopWaiting = FALSE], "resolve", 0)
    ELSE s1

\* didHandleEvent()
DidHandleEvent(s) ==
    LET s1 == IF GetQueueLength(s) = 0 THEN EmitDrain(s) ELSE s
    IN  IF s1.running THEN Poll(s1) ELSE s1

\* (a stop() that does not look at the queue before it resolves)
StopAtOnce(s) ==
    Log(CancelScheduledPoll([s EXCEPT !.running = FALSE]), "resolve", 0)

\* (a stop() that waits for 'drain' whatever the queue holds)
StopAlwaysWaits(s) ==
    LET s1 == CancelScheduledPoll([s EXCEPT !.running = FALSE]) IN
    Log([s1 EXCEPT !.stopWaiting = TRUE], "wait", 0)

\* (a stop() that also empties the queue and forgets the request in flight)
StopClearsQueue(s) ==
    LET s1 == CancelScheduledPoll([s EXCEPT !.running = FALSE, !.waiting = <<>>,
                                            !.polling = FALSE]) IN
    IF GetQueueLength(s1) = 0
    THEN Log(s1, "resolve", 0)
    ELSE Log([s1 EXCEPT !.stopWaiting = TRUE], "wait", 0)

\* (a stop() that leaves the scheduled poll in place)
StopKeepsTimer(s) ==
    LET s1 == [s EXCEPT !.running = FALSE] IN
    IF GetQueueLength(s1) = 0
    THEN Log(s1, "resolve", 0)
    ELSE Log([s1 EXCEPT !.stopWaiting = TRUE], "wait", 0)

\* stop()
Stop(s) ==
    LET s1 == CancelScheduledPoll([s EXCEPT !.running = FALSE]) IN
    IF GetQueueLength(s1) = 0
    THEN Log(s1, "resolve", 0)
    ELSE Log([s1 EXCEPT !.stopWaiting = TRUE], "wait", 0)

\* -------------------------------------------------- dispatch (queue tasks)
RECURSIVE TryToStartAnother(_)

\* The queue's `_next()`: the slot is released (the ended task no longer counts
\* as pending) and the oldest waiting task, if any, is started.
QueueNext(s) == TryToStartAnother(s)

\* The promise of queue.add() is fulfilled: `.then(this.didHandleEvent...)` is
\* queued as a continuation, and the queue moves on.
TaskFulfilled(s, id) ==
    QueueNext([s EXCEPT !.events[id].stage = "settled"])

\* The promise of queue.add() is rejected: `e => console.log(e.stack)` is all
\* that runs for the event, and the queue moves on.
TaskRejected(s, id) ==
    Log(QueueNext([s EXCEPT !.events[id].stage = "done"]), "log", id)

\* The queue runs a task: handleEvent(event) up to its first suspension. A
\* handler that raises makes handleEvent raise, which rejects the task at once.
RunTask(s, id) ==
    LET s1 == Log([s EXCEPT !.events[id].seen = @ + 1], "onEvent", id)
        s2 == Log([s1 EXCEPT !.events[id].calls = @ + 1], "handler", id)
    IN  IF s2.events[id].raises
        THEN TaskRejected([s2 EXCEPT !.events[id].outcome = "threw"], id)
        ELSE [s2 EXCEPT !.events[id].stage = "handling"]

\* The queue starts its oldest waiting task when fewer than `concurrency` tasks
\* are pending.
TryToStartAnother(s) ==
    IF s.waiting = <<>> \/ QueuePending(s) >= QueueConcurrency
    THEN s
    ELSE RunTask([s EXCEPT !.waiting = Tail(@)], Head(s.waiting))

\* The events with the one of `entry` among them, under its id.
WithEvent(evs, entry) ==
    [i \in DOMAIN evs \cup {entry.id} |->
        IF i = entry.id THEN NewEvent(entry) ELSE evs[i]]

\* queue.add(this.handleEvent.bind(this, event))
QueueAdd(s, entry) ==
    TryToStartAnother([s EXCEPT !.events = WithEvent(@, entry),
                                 !.waiting = Append(@, entry.id)])

\* (the entries submitted last to first)
RECURSIVE AddAllReversed(_, _)
AddAllReversed(s, entries) ==
    IF entries = <<>> THEN s
    ELSE AddAllReversed(QueueAdd(s, entries[Len(entries)]),
                        SubSeq(entries, 1, Len(entries) - 1))

\* entries.forEach(event => this.queue.add(...))
RECURSIVE AddAll(_, _)
AddAll(s, entries) ==
    IF entries = <<>> THEN s
    ELSE AddAll(QueueAdd(s, Head(entries)), Tail(entries))

\* ------------------------------------------------------------- ack / nack
\* The loop over event.links: the uri of the first link whose relation is type.
RECURSIVE FindLink(_, _, _, _)
FindLink(links, i, type, id) ==
    IF i > Len(links) THEN NoUrl
    ELSE IF links[i] = type THEN Uri(links[i], id)
    ELSE FindLink(links, i + 1, type, id)

\* (a lookup that takes the first link, whatever its relation)
LinkUriFirst(links, type, id) ==
    IF links = <<>> THEN NoUrl ELSE Uri(links[1], id)

LinkUri(links, type, id) == FindLink(links, 1, type, id)

\* doRequest(): this.request('POST', url)
DoRequest(s, id) ==
    Log([s EXCEPT !.events[id].stage = "posting",
                  !.events[id].posts = @ + 1,
                  !.events[id].postedTo = @ \cup {s.events[id].url}],
        "POST", id)

\* (an ackNackHelper without `if (!url) return Promise.resolve()`)
AckNackHelperPostsAnyway(s, id, type, links) ==
    LET s1 == IF type = "ack"
              THEN Log([s EXCEPT !.events[id].acks = @ + 1], "onAck", id)
              ELSE Log([s EXCEPT !.events[id].nacks = @ + 1], "onNack", id)
        url == LinkUri(links, type, id)
        s2 == [s1 EXCEPT !.events[id].type = type, !.events[id].url = url,
                         !.events[id].retryCount = 0]
    IN  DoRequest(s2, id)

\* ackNackHelper(event, type)
AckNackHelper(s, id, type, links) ==
    LET s1 == IF type = "ack"
              THEN Log([s EXCEPT !.events[id].acks = @ + 1], "onAck", id)
              ELSE Log([s EXCEPT !.events[id].nacks = @ + 1], "onNack", id)
        url == LinkUri(links, type, id)
        s2 == [s1 EXCEPT !.events[id].type = type, !.events[id].url = url,
                         !.events[id].retryCount = 0]
    IN  IF url = NoUrl
        THEN TaskFulfilled([s2 EXCEPT !.events[id].result = "nolink"], id)
        ELSE DoRequest(s2, id)

\* ack(event), nack(event)
Ack(s, id, links) == AckNackHelper(s, id, "ack", links)
Nack(s, id, links) == AckNackHelper(s, id, "nack", links)

\* handleEvent's `.then(() => this.ack(event), e => {...})`: the first callback
HandlerResolved(s, id, links) ==
    Ack([s EXCEPT !.events[id].outcome = "resolved"], id, links)

\* ... and the second: this.onError(e); return this.nack(event)
HandlerRejected(s, id, links) ==
    LET s1 == [s EXCEPT !.events[id].outcome = "rejected", !.events[id].errs = @ + 1]
    IN  Nack(Log(s1, "onError", id), id, links)

\* (handleEvent written as `.then(ack).catch(nack)`: a failed ack is nacked)
AckRejectedThenNack(s, id) ==
    IF s.events[id].type = "ack"
    THEN Nack(Log(s, "onError", id), id, <<"ack", "nack">>)
    ELSE TaskRejected(s, id)

\* The promise of ack()/nack() is rejected: both callbacks of handleEvent's
\* then() belong to the handler's promise, so the rejection passes through to
\* the promise of queue.add().
AckRejected(s, id) == TaskRejected(s, id)

\* (the bound compared one attempt late)
RetriesExhaustedLate(retryCount) == retryCount > Retries

\* if (retryCount === retries)
RetriesExhausted(retryCount) == retryCount = Retries

\* The POST succeeded: resolve(payload?.data)
PostSucceeded(s, id) ==
    TaskFulfilled([s EXCEPT !.events[id].result = "ok"], id)

\* The POST failed: the catch callback of doRequest
PostFailed(s, id) ==
    LET s1 == [s EXCEPT !.events[id].retryCount = @ + 1] IN
    IF RetriesExhausted(s1.events[id].retryCount)
    THEN AckRejected(Log([s1 EXCEPT !.events[id].ackErrs = @ + 1,
                                    !.events[id].result = "failed"],
                         "onError", id), id)
    ELSE Log([s1 EXCEPT !.events[id].stage = "retryWait"], "retryTimer", id)

\* ------------------------------------------------- completions of the GET
RemoveAt(seq, k) == SubSeq(seq, 1, k - 1) \o SubSeq(seq, k + 1, Len(seq))

\* (a then callback without `if (!this.running) return`)
OnFetchedWhileStopped(s, entries) ==
    LET s1 == [s EXCEPT !.polling = FALSE]
        s2 == IF Len(entries) > 0
              THEN Poll(AddAll(s1, entries))
              ELSE SchedulePoll(s1)
    IN  Log(s2, "poll", 0)

\* (a then callback that polls again at once when no event came)
OnFetchedPollsAtOnce(s, entries) ==
    LET s1 == [s EXCEPT !.polling = FALSE] IN
    IF ~s1.running THEN s1
    ELSE Log(Poll(AddAll(s1, entries)), "poll", 0)

\* (a then callback that leaves the next poll() to the timer)
OnFetchedWaitsForTimer(s, entries) ==
    LET s1 == [s EXCEPT !.polling = FALSE] IN
    IF ~s1.running THEN s1
    ELSE LET s2 == IF Len(entries) > 0
                   THEN SchedulePoll(AddAll(s1, entries))
                   ELSE SchedulePoll(s1)
         IN  Log(s2, "poll", 0)

\* The then callback of poll()'s request
OnFetched(s, entries) ==
    LET s1 == [s EXCEPT !.polling = FALSE] IN
    IF ~s1.running THEN s1
    ELSE LET s2 == IF Len(entries) > 0
                   THEN Poll(AddAll(s1, entries))
                   ELSE SchedulePoll(s1)
         IN  Log(s2, "poll", 0)

\* (the rejection callback without `this.polling = false`)
OnFetchFailedStillPolling(s) ==
    LET s1 == Log(s, "onError", 0) IN
    IF s1.running THEN SchedulePoll(s1) ELSE s1

\* The rejection callback of poll()'s request
OnFetchFailed(s) ==
    LET s1 == Log([s EXCEPT !.polling = FALSE], "onError", 0) IN
    IF s1.running THEN SchedulePoll(s1) ELSE s1

\* ---------------------------------------------------------------- actions
\* The addresses of the tests: the environment's and the option's.
EnvUrl == "http://localhost:2113"
OptionUrl == "http://override.localhost:2113"

\* a || b, on strings: undefined and "" are both falsy
Or(a, b) == IF a # "" THEN a ELSE b

\* (the environment consulted before the option)
EnvironmentFirst(p) == Or(Or(p.env, p.eventStoreUrl), "")

\* params.eventStoreUrl || process.env.EVENT_STORE_URL || ""
EventStoreUrl(p) == Or(Or(p.eventStoreUrl, p.env), "")

\* new EventStoreConsumer(params), in environment `env`, with concurrency c
\* (the option, or its default): the state the constructor leaves, the one of
\* its throw when no address is set.
Constructor(p, c) ==
    /\ params = p
    /\ eventStoreUrl = EventStoreUrl(p)
    /\ concurrency = c
    /\ running = FALSE
    /\ polling = FALSE
    /\ pollTimer = "none"
    /\ timeouts = 0
    /\ pollTimerSetBy = "none"
    /\ fetches = <<>>
    /\ events = <<>>
    /\ waiting = <<>>
    /\ stopWaiting = FALSE
    /\ out = IF EventStoreUrl(p) = ""
             THEN <<E("new", 0), E("throw", 0)>>
             ELSE <<E("new", 0)>>

\* A consumer of the environment's event store, with any concurrency.
Init ==
    \E c \in 1..MaxConcurrency :
        Constructor([eventStoreUrl |-> "", env |-> EnvUrl], c)

\* A consumer constructed with or without the eventStoreUrl option, in an
\* environment with or without EVENT_STORE_URL, the other options left to
\* their defaults.
InitUrl ==
    \E p \in [eventStoreUrl : {"", OptionUrl}, env : {"", EnvUrl}] :
        Constructor(p, DefaultConcurrency)

\* A continuation `.then(this.didHandleEvent.bind(this), ...)` is queued: the
\* event loop runs it, as every promise reaction, before the next timer or
\* request callback.
MicrotaskQueued == \E i \in DOMAIN events : events[i].stage = "settled"

\* consumer.start()
Start ==
    \E s \in {Poll([Begin("start", 0) EXCEPT !.running = TRUE])} : Commit(s)

\* consumer.stop()
StopCall ==
    \E s \in {Stop(Begin("stop", 0))} : Commit(s)

\* The poll timeout runs poll(); its handle stays in this.pollTimer.
TimerFire ==
    /\ ~MicrotaskQueued
    /\ pollTimer = "armed"
    /\ Commit(Poll([Begin("timer", 0) EXCEPT !.pollTimer = "fired",
                                           !.timeouts = @ - 1,
                                           !.pollTimerSetBy = "none"]))

\* A GET returns a response with n entries. The backend is not this program:
\* n is not assumed to respect the count the request asked for.
\* payload.data.entries of the response of a GET. The id of an event is its
\* place among the events the backend has delivered, so the ids of a response
\* follow the order of its entries.
Entries(choices) ==
    [k \in DOMAIN choices |->
        [raises |-> choices[k].raises, id |-> Len(events) + k]]

FetchSucceed ==
    /\ ~MicrotaskQueued
    /\ \E k \in 1..Len(fetches) :
       \E n \in 0..(MaxEvents - Len(events)) :
       \E choices \in [1..n -> EntryChoices] :
           Commit(OnFetched([Begin("fetched", n) EXCEPT !.fetches = RemoveAt(@, k)],
                            Entries(choices)))

\* A GET fails.
FetchFail ==
    /\ ~MicrotaskQueued
    /\ \E k \in 1..Len(fetches) :
           Commit(OnFetchFailed([Begin("fetchFailed", 0) EXCEPT !.fetches = RemoveAt(@, k)]))

\* The promise a handler returned is fulfilled; the event carries `links`.
HandlerResolve(id) ==
    /\ events[id].stage = "handling"
    /\ \E links \in LinkChoices :
           Commit(HandlerResolved(Begin("handlerResolved", id), id, links))

\* The promise a handler returned is rejected; the event carries `links`.
HandlerReject(id) ==
    /\ events[id].stage = "handling"
    /\ \E links \in LinkChoices :
           Commit(HandlerRejected(Begin("handlerRejected", id), id, links))

\* A POST succeeds.
PostSucceed(id) ==
    /\ ~MicrotaskQueued
    /\ events[id].stage = "posting"
    /\ Commit(PostSucceeded(Begin("posted", id), id))

\* A POST fails.
PostFail(id) ==
    /\ ~MicrotaskQueued
    /\ events[id].stage = "posting"
    /\ Commit(PostFailed(Begin("postFailed", id), id))

\* The retry timeout of ackNackHelper runs doRequest().
RetryFire(id) ==
    /\ ~MicrotaskQueued
    /\ events[id].stage = "retryWait"
    /\ Commit(DoRequest(Begin("retry", id), id))

\* The continuation `.then(this.didHandleEvent.bind(this), ...)` runs.
DidHandle(id) ==
    /\ events[id].stage = "settled"
    /\ Commit(DidHandleEvent([Begin("didHandleEvent", id)
                                  EXCEPT !.events[id].stage = "done",
                                         !.events[id].notified = TRUE]))

Next ==
    \/ Start
    \/ StopCall
    \/ TimerFire
    \/ FetchSucceed
    \/ FetchFail
    \/ \E id \in DOMAIN events : HandlerResolve(id)
    \/ \E id \in DOMAIN events : HandlerReject(id)
    \/ \E id \in DOMAIN events : PostSucceed(id)
    \/ \E id \in DOMAIN events : PostFail(id)
    \/ \E id \in DOMAIN events : RetryFire(id)
    \/ \E id \in DOMAIN events : DidHandle(id)

Spec == Init /\ [][Next]_vars

\* The same consumer over every way of giving it its address.
SpecUrl == InitUrl /\ [][Next]_vars


\* ============================================================= properties
Ids == DOMAIN events

Handling == {i \in Ids : events[i].stage = "handling"}

\* The relation the handler's outcome calls for.
RelationOf(outcome) == IF outcome = "resolved" THEN "ack" ELSE "nack"

Settled(i) == events[i].outcome \in {"resolved", "rejected"}

\* C1: whatever the concurrency limit and the interleaving, the tasks of the
\* queue that are running (handler called, ack/nack sequence not ended), and so
\* the handler invocations active at the same time, never exceed concurrency.
C1_ConcurrencyCeiling ==
    /\ Cardinality(PendingIds(Now)) <= concurrency
    /\ Cardinality(Handling) <= concurrency

\* A burst larger than the limit: the limit is reached and an event waits.
C1_Witness ==
    /\ Cardinality(Handling) = concurrency
    /\ waiting # <<>>

\* C2: for every event whose handler settled, exactly one of ack() and nack()
\* was called, once, and every request of the acknowledgment went to the uri of
\* the event's link whose relation matches the outcome.
C2_ExactlyOneAcknowledgment ==
    \A i \in Ids :
        Settled(i) =>
            /\ events[i].acks + events[i].nacks = 1
            /\ events[i].type = RelationOf(events[i].outcome)
            /\ events[i].postedTo \subseteq {Uri(RelationOf(events[i].outcome), i)}
            /\ events[i].posts > 0 => events[i].postedTo # {}

\* Both events of a batch are done, one acked and one nacked, with a request each.
C2_Witness ==
    /\ Len(events) = 2
    /\ \A i \in Ids : events[i].stage = "done" /\ events[i].posts > 0
    /\ events[1].outcome = "resolved"
    /\ events[2].outcome = "rejected"

\* C3: a handler that resolved has its event acked and never nacked, a handler
\* that rejected has it nacked and never acked, also after the acknowledgment
\* has failed for good.
C3_OutcomeDecidesAckOrNack ==
    \A i \in Ids :
        /\ events[i].outcome = "resolved" => events[i].acks = 1 /\ events[i].nacks = 0
        /\ events[i].outcome = "rejected" => events[i].nacks = 1 /\ events[i].acks = 0

\* An ack whose requests all failed.
C3_Witness ==
    \E i \in Ids :
        /\ events[i].outcome = "resolved"
        /\ events[i].result = "failed"
        /\ events[i].stage = "done"


\* What the last callback did: the entries of its log with operation op.
Did(op) == {k \in DOMAIN out : out[k].op = op}
Count(op) == Cardinality(Did(op))
Callback == out[1].op

\* C4: a promise of stop() is resolved only in a state where the queue holds no
\* waiting and no running task (every submitted event has ended its handler and
\* its ack/nack sequence), and no callback issues a fetch while the consumer is
\* not running, that is from stop() until the next start().
C4_StopResolvesOnEmptyQueue ==
    /\ Did("resolve") # {} =>
           /\ GetQueueLength(Now) = 0
           /\ \A i \in Ids : events[i].stage \in {"settled", "done"}
    /\ ~running => Did("GET") = {}

\* stop() had to wait: the drain notification of the last event resolved it.
C4_Witness ==
    /\ ~running
    /\ Callback = "didHandleEvent"
    /\ Did("drain") # {}
    /\ Did("resolve") # {}

\* C5: once stop() waits for the queue, the promise is resolved when every
\* submitted event has ended (by success, a missing link or exhausted retries):
\* there is no state where the promise is unresolved and no event is left that
\* has not completed.
C5_StopResolvesWhenEventsEnd ==
    stopWaiting => \E i \in Ids : events[i].stage # "done"

\* C6: an event whose handler failed, by a rejected promise or by raising, has
\* had the error hook called with the error and a nack started, and once it is
\* done its completion was processed by didHandleEvent.
C6_HandlerFailureIsNacked ==
    \A i \in Ids :
        events[i].outcome \in {"rejected", "threw"} =>
            /\ events[i].errs = 1
            /\ events[i].nacks = 1
            /\ events[i].stage = "done" => events[i].notified

\* C7: an acknowledgment never issues more than Retries requests; one that
\* failed for good issued exactly Retries requests and called the error hook
\* once, in the callback of its last failed request; one that succeeded issued
\* no request after the successful one and never called the error hook.
C7_BoundedRetries ==
    /\ \A i \in Ids :
        /\ events[i].posts <= Retries
        /\ events[i].result = "failed" =>
               events[i].posts = Retries /\ events[i].ackErrs = 1
        /\ events[i].result = "ok" =>
               /\ events[i].posts = events[i].retryCount + 1
               /\ events[i].ackErrs = 0
               /\ events[i].stage \in {"settled", "done"}
        /\ events[i].result \in {"none", "nolink"} => events[i].ackErrs = 0
    /\ Callback = "postFailed" =>
           IF events[out[1].arg].result = "failed"
           THEN Count("onError") = 1 /\ Count("retryTimer") = 0
           ELSE Count("onError") = 0 /\ Count("retryTimer") = 1

\* The third request of an acknowledgment has just failed.
C7_Witness ==
    /\ Callback = "postFailed"
    /\ events[out[1].arg].result = "failed"
    /\ events[out[1].arg].posts = Retries

\* C8: an event whose ack/nack sequence has ended, by success, by a missing
\* link or by exhausted retries, has its completion processed: didHandleEvent
\* is pending for it or has run.
C8_EndedSequenceIsNotified ==
    \A i \in Ids :
        events[i].result \in {"ok", "nolink", "failed"} =>
            \/ events[i].stage = "settled"
            \/ events[i].stage = "done" /\ events[i].notified

\* C9: there is no state where the consumer is running with free capacity and
\* no fetch is outstanding, no poll timer is pending and no submitted event is
\* left whose completion would call the poller.
C9_NoIdleRunning ==
    (running /\ GetQueueLength(Now) < concurrency) =>
        \/ fetches # <<>>
        \/ pollTimer = "armed"
        \/ \E i \in Ids : events[i].stage # "done"

\* C10: the rejection callback of a fetch calls the error hook once and leaves
\* no request outstanding; when the consumer is running it sets the poll timer,
\* in a state where the timer's poll() will fetch (free capacity, no request
\* outstanding); when it is not running it sets no timer.
C10_FetchFailure ==
    Callback = "fetchFailed" =>
        /\ Count("onError") = 1
        /\ Did("GET") = {}
        /\ ~polling
        /\ fetches = <<>>
        /\ running =>
               /\ pollTimer = "armed"
               /\ Count("setTimeout") = 1
               /\ GetQueueLength(Now) < concurrency
        /\ ~running =>
               /\ pollTimer = "none"
               /\ Count("setTimeout") = 0

\* A fetch has failed while the consumer runs and an event is being handled.
C10_Witness ==
    /\ Callback = "fetchFailed"
    /\ running
    /\ pollTimer = "armed"
    /\ Handling # {}

\* C11: while the consumer is not running (before the first start(), and from
\* stop() until the next start()) no poll timer is pending, none fires, and no
\* callback issues a fetch or sets the poll timer; the work of the events in
\* flight goes on: the next callback of every event that has not ended (its
\* handler settling, its didHandleEvent, and once the queued continuations
\* have run its POST answered or its retry timer) can run.
C11_NothingNewWhileStopped ==
    ~running =>
        /\ pollTimer = "none"
        /\ Callback # "timer"
        /\ Did("GET") = {}
        /\ Did("setTimeout") = {}
        /\ \A i \in Ids :
               /\ events[i].stage = "handling" =>
                      ENABLED HandlerResolve(i) /\ ENABLED HandlerReject(i)
               /\ events[i].stage = "settled" => ENABLED DidHandle(i)
               /\ ~MicrotaskQueued =>
                      /\ events[i].stage = "posting" =>
                             ENABLED PostSucceed(i) /\ ENABLED PostFail(i)
                      /\ events[i].stage = "retryWait" => ENABLED RetryFire(i)

\* After stop(), an event's acknowledgment was retried and its POST answered.
C11_Witness ==
    /\ ~running
    /\ Callback = "posted"
    /\ events[out[1].arg].retryCount > 0
    /\ events[out[1].arg].result = "ok"

\* C12: a stop() call writes the run state and the poll timer and nothing else
\* of the consumer: the events submitted, the tasks waiting in the queue, the
\* stage of every event's handler, its retry counter and its retry timer are
\* as before the call, and a GET in flight stays in flight. What the call hands
\* back is its promise, resolved at once or left waiting for 'drain'.
C12_StopFrame ==
    [][out'[1].op = "stop" =>
           /\ running' = FALSE
           /\ pollTimer' = "none"
           /\ events' = events
           /\ waiting' = waiting
           /\ fetches' = fetches
           /\ polling' = polling
           /\ concurrency' = concurrency
           /\ out' \in {<<E("stop", 0), E("resolve", 0)>>, <<E("stop", 0), E("wait", 0)>>}
           /\ stopWaiting' \in {stopWaiting, TRUE}]_vars

\* stop() was called with a GET in flight and an event waiting for the retry
\* timer of its acknowledgment.
C12_Witness ==
    /\ Callback = "stop"
    /\ fetches # <<>>
    /\ \E i \in Ids : events[i].stage = "retryWait" /\ events[i].retryCount > 0

\* C13: the callback that completes a GET, the one of a response (with or
\* without events) as much as the one of a failure, emits 'poll' exactly once,
\* and no other callback emits it.
C13_PollOncePerCompletedFetch ==
    IF Callback \in {"fetched", "fetchFailed"}
    THEN Count("poll") = 1
    ELSE Count("poll") = 0

\* C14: 'drain' is emitted only by a callback that leaves the queue empty, and
\* every time the queue becomes empty while the consumer runs: the callback
\* that ends the last task (a handler settling on an event without the link,
\* the answer or the last failure of a POST) leaves the task's didHandleEvent
\* pending, and a didHandleEvent that finds the queue empty emits 'drain' once.
C14_DrainOnEveryEmptying ==
    /\ Did("drain") # {} => GetQueueLength(Now) = 0
    /\ (/\ running
        /\ Callback \in {"handlerResolved", "handlerRejected", "posted", "postFailed"}
        /\ GetQueueLength(Now) = 0) =>
           events[out[1].arg].stage = "settled"
    /\ (Callback = "didHandleEvent" /\ GetQueueLength(Now) = 0) => Count("drain") = 1

\* C15: whatever the order of start() and stop() calls, timer firings, GET
\* completions and event callbacks, at most one GET is in flight; this.polling
\* is true exactly while one is, and no callback issues two.
C15_OneFetchOutstanding ==
    /\ Len(fetches) <= 1
    /\ polling <=> fetches # <<>>
    /\ Count("GET") <= 1

\* start() was called (a second time, or after a stop()) while the GET of an
\* earlier start() was in flight and capacity was free: it issued no request.
C15_Witness ==
    /\ Callback = "start"
    /\ GetQueueLength(Now) < concurrency
    /\ Len(fetches) = 1
    /\ Did("GET") = {}

\* The last callback called poll() as the consumer was running: start(), the
\* poll timer, a didHandleEvent, or the GET's callback after it queued a batch.
\* (None of them changes the queue after the call, so the queue length now is
\* the one poll() read.)
PollerInvoked ==
    /\ running
    /\ \/ Callback \in {"start", "timer", "didHandleEvent"}
       \/ Callback = "fetched" /\ out[1].arg > 0

\* C16: a poll() that finds pending+inFlight >= concurrency issues no GET and
\* returns with a poll timer pending, whichever callback called it, the firing
\* of the previous timer included; and with concurrency 1 no GET is in flight
\* while an event is with its handler or its acknowledgment.
C16_FullQueueSchedulesRecheck ==
    /\ (PollerInvoked /\ GetQueueLength(Now) >= concurrency) =>
           /\ Did("GET") = {}
           /\ pollTimer = "armed"
    /\ (concurrency = 1 /\ PendingIds(Now) # {}) => fetches = <<>>

\* C17: the constructor throws, and there is no consumer to call, exactly when
\* neither the eventStoreUrl option nor EVENT_STORE_URL is set; otherwise the
\* address of every GET is the option when it is set, whether or not the
\* environment has one too, and the environment's otherwise.
C17_AddressOfTheEventStore ==
    /\ Did("throw") # {} <=> (params.eventStoreUrl = "" /\ params.env = "")
    /\ Did("throw") # {} => eventStoreUrl = "" /\ ~ENABLED Next
    /\ \A k \in DOMAIN fetches :
           fetches[k].base =
               IF params.eventStoreUrl # "" THEN params.eventStoreUrl ELSE params.env

\* Option and environment are both set, and a GET is in flight that was issued
\* after an event completed.
C17_Witness ==
    /\ params.eventStoreUrl = OptionUrl
    /\ params.env = EnvUrl
    /\ Callback = "didHandleEvent"
    /\ Did("GET") # {}
    /\ fetches # <<>>

\* C18: the callback of a GET that returns N > 0 events to a running consumer
\* submits all N to the queue (each is started or waits in the queue) and
\* calls poll() itself: when the queue is left with free capacity it issues a
\* GET at once, for concurrency minus the events that have not completed, and
\* no timer is involved; when the queue is full it issues none.
C18_BatchThenPollAtOnce ==
    [][(out'[1].op = "fetched" /\ out'[1].arg > 0 /\ running') =>
           /\ Len(events') = Len(events) + out'[1].arg
           /\ \A i \in (Len(events) + 1)..Len(events') :
                  \/ events'[i].calls = 1
                  \/ \E k \in DOMAIN waiting' : waiting'[k] = i
           /\ IF GetQueueLength(Now)' < concurrency
              THEN /\ Count("GET")' = 1
                   /\ fetches' = <<GetUrl(concurrency - GetQueueLength(Now)')>>
                   /\ pollTimer' = "none"
                   /\ Did("setTimeout")' = {}
              ELSE /\ Did("GET")' = {}
                   /\ fetches' = <<>>]_vars

\* A batch of one event came back to a consumer of concurrency 2: the callback
\* has asked for the one event there is still room for.
C18_Witness ==
    /\ Callback = "fetched"
    /\ out[1].arg = 1
    /\ concurrency = 2
    /\ GetQueueLength(Now) = 1
    /\ fetches = <<GetUrl(1)>>
    /\ out[Len(out) - 1] = E("GET", 1)

\* The callback of a GET that returns no event to a running consumer sets the
\* poll timer and issues no GET.
EmptyFetchSetsTimer ==
    (out'[1] = E("fetched", 0) /\ running') =>
        /\ pollTimer' = "armed"
        /\ pollTimerSetBy' = "empty"
        /\ Count("setTimeout")' = 1
        /\ Did("GET")' = {}
        /\ fetches' = <<>>

\* The poll timer firing on an empty queue issues one GET, for `concurrency`
\* events.
TimerOnEmptyQueueFetches ==
    (out'[1].op = "timer" /\ GetQueueLength(Now)' = 0) =>
        /\ Count("GET")' = 1
        /\ fetches' = <<GetUrl(concurrency)>>

\* C19, as claimed: a GET that returns no event to a running consumer sets the
\* poll timer and, while that timer is pending, no callback but its firing
\* issues a GET (a start() call of the user aside); the timer firing on an
\* empty queue issues one GET, for `concurrency` events.
C19_NoFetchUntilTimerFires ==
    [][/\ EmptyFetchSetsTimer
       /\ (pollTimer = "armed" /\ pollTimerSetBy = "empty" /\ Did("GET")' # {}) =>
              out'[1].op \in {"timer", "start"}
       /\ TimerOnEmptyQueueFetches]_vars

\* C19, amended: a GET that returns no event to a running consumer sets the
\* poll timer and issues no GET itself; while that timer is pending a GET is
\* issued only by the timer's firing, by a start() call or by the
\* didHandleEvent of an event that completes, and the poll() that issues it
\* clears the timer; the timer firing on an empty queue issues one GET, for
\* `concurrency` events.
C19_EmptyFetchWaitsForTimerOrCapacity ==
    [][/\ EmptyFetchSetsTimer
       /\ (pollTimer = "armed" /\ pollTimerSetBy = "empty" /\ Did("GET")' # {}) =>
              /\ out'[1].op \in {"timer", "start", "didHandleEvent"}
              /\ pollTimer' = "none"
       /\ TimerOnEmptyQueueFetches]_vars

\* A GET has returned no event while an earlier event is with its handler: the
\* timer is pending, and the event's completion will not wait for it.
C19_Witness ==
    /\ out[1] = E("fetched", 0)
    /\ running
    /\ pollTimer = "armed"
    /\ pollTimerSetBy = "empty"
    /\ Handling # {}

\* C20: the callback of a GET that returns to a consumer that is not running
\* drops the response: it submits no event (none is added, queued or handed to
\* the handler, so none is acked or nacked), sets no timer, issues no GET and
\* emits nothing; all it does is to end the request (this.polling is reset and
\* no request is in flight).
C20_ResponseAfterStopIsDropped ==
    [][(out'[1].op = "fetched" /\ ~running') =>
           /\ events' = events
           /\ waiting' = waiting
           /\ out' = <<out'[1]>>
           /\ pollTimer' = "none"
           /\ ~polling'
           /\ fetches' = <<>>
           /\ stopWaiting' = stopWaiting]_vars

\* A response with events arrived after stop(), while an earlier event was
\* still with its acknowledgment and stop() was waiting for it.
C20_Witness ==
    /\ Callback = "fetched"
    /\ out[1].arg > 0
    /\ ~running
    /\ stopWaiting
    /\ \E i \in Ids : events[i].stage = "posting"

\* C21: the count in the url of every GET is at least 1 and at most
\* concurrency, and it is concurrency minus the queue length (waiting plus
\* running tasks) read by the poll() that issued the request; the callback
\* that issued it has not changed the queue since.
C21_FetchCount ==
    /\ \A k \in DOMAIN fetches :
           fetches[k].count >= 1 /\ fetches[k].count <= concurrency
    /\ \A k \in Did("GET") :
           /\ out[k].arg = concurrency - GetQueueLength(Now)
           /\ out[k].arg >= 1
           /\ fetches = <<GetUrl(out[k].arg)>>

\* With concurrency 2 and one event still with its handler, the completion of
\* the other has issued a GET for 1.
C21_Witness ==
    /\ Callback = "didHandleEvent"
    /\ concurrency = 2
    /\ Cardinality(Handling) = 1
    /\ fetches = <<GetUrl(1)>>
    /\ Did("GET") # {}

\* The step is the callback of a response that carries more events than the
\* url of its request asked for.
OverDelivery ==
    /\ out'[1].op = "fetched"
    /\ \A k \in DOMAIN fetches : out'[1].arg > fetches[k].count

\* C22: as long as no response carries more events than its request asked
\* for, the queue length (tasks waiting plus tasks running, those in a POST or
\* in a retry delay included) stays within concurrency and no submitted event
\* waits in the queue: every step that is not such a response keeps both.
C22_QueueWithinConcurrency ==
    [][(/\ GetQueueLength(Now) <= concurrency
        /\ waiting = <<>>
        /\ ~OverDelivery) =>
           /\ GetQueueLength(Now)' <= concurrency
           /\ waiting' = <<>>
           /\ \A i \in DOMAIN events' : events'[i].calls = 1]_vars

\* A response with as many events as asked for has filled the queue of a
\* consumer of concurrency 2, one event being in the retry delay of its ack.
C22_Witness ==
    /\ Callback = "fetched"
    /\ concurrency = 2
    /\ out[1].arg = 1
    /\ GetQueueLength(Now) = 2
    /\ waiting = <<>>
    /\ \E i \in Ids : events[i].stage = "retryWait"

\* C23: at most one timeout of schedulePoll() is pending, the one whose handle
\* this.pollTimer holds; while a GET is in flight none is pending: the poll()
\* that issues a GET leaves no timeout behind, and no callback sets one while
\* the request is in flight.
C23_OneTimerAndNoneWhileFetching ==
    /\ timeouts <= 1
    /\ timeouts = 1 <=> pollTimer = "armed"
    /\ fetches # <<>> =>
           /\ timeouts = 0
           /\ pollTimer = "none"
           /\ Did("setTimeout") = {}
    /\ Did("setTimeout") # {} => Count("setTimeout") = 1 /\ Did("GET") = {}

\* While a GET is in flight and an event is with its handler, start() ran
\* poll(): it set no timer.
C23_Witness ==
    /\ Callback = "start"
    /\ fetches # <<>>
    /\ Handling # {}
    /\ timeouts = 0

\* C24: every event submitted has its handler called once, the onEvent hook
\* once and just before it; it is with its handler until the handler's promise
\* settles, then exactly one of ack() and nack() runs, and it ends (its task's
\* promise settles) only after that; an event that left its handler, a failed
\* acknowledgment included, is never handed to the handler again.
C24_StagesInOrder ==
    /\ \A i \in Ids :
           /\ events[i].calls <= 1
           /\ events[i].seen = events[i].calls
           /\ events[i].calls = 0 <=> events[i].stage = "queued"
           /\ events[i].stage = "handling" =>
                  /\ events[i].outcome = "none"
                  /\ events[i].acks + events[i].nacks = 0
                  /\ events[i].posts = 0
           /\ events[i].stage \in {"posting", "retryWait"} =>
                  /\ Settled(i)
                  /\ events[i].acks + events[i].nacks = 1
           /\ events[i].stage \in {"settled", "done"} =>
                  /\ Settled(i)
                  /\ events[i].acks + events[i].nacks = 1
    /\ \A k \in Did("handler") : k > 1 /\ out[k - 1] = E("onEvent", out[k].arg)

\* The onAck and onNack calls of the last callback.
HookCalls == Did("onAck") \cup Did("onNack")

\* C25: for each event one of the hooks onAck and onNack is called, once: an
\* event that is past its handler has had exactly one call, made by the
\* callback in which the handler's promise settled and before any POST of the
\* event; the callbacks of a retry call no hook; an event without the link of
\* the matching relation has had the call as well.
C25_HookOncePerEvent ==
    /\ \A i \in Ids :
           /\ events[i].stage \in {"posting", "retryWait", "settled", "done"} =>
                  events[i].acks + events[i].nacks = 1
           /\ events[i].result = "nolink" => events[i].acks + events[i].nacks = 1
           /\ events[i].stage \in {"queued", "handling"} =>
                  events[i].acks + events[i].nacks = 0
    /\ \A k \in HookCalls :
           /\ Callback \in {"handlerResolved", "handlerRejected"}
           /\ out[k].arg = out[1].arg
           /\ \A j \in Did("POST") : out[j].arg = out[k].arg => j > k
    /\ Cardinality(HookCalls) <= 1

\* The events whose ack() or nack() found no link of its relation.
WithoutLink == {i \in Ids : events[i].type # "none" /\ events[i].url = NoUrl}

\* C26: for an event without a link of the relation that matches the outcome
\* no POST is issued and the error hook is not called on behalf of the
\* acknowledgment; the event ends as one whose acknowledgment succeeded: its
\* task is fulfilled in the callback where the handler settled, it no longer
\* counts in the queue, and its didHandleEvent runs, with the 'drain' check
\* and, when the consumer runs, the poll().
C26_MissingLinkIsSuccess ==
    /\ \A i \in WithoutLink :
           /\ events[i].result = "nolink"
           /\ events[i].posts = 0
           /\ events[i].postedTo = {}
           /\ events[i].ackErrs = 0
           /\ events[i].errs = IF events[i].outcome = "rejected" THEN 1 ELSE 0
           /\ i \notin PendingIds(Now)
           /\ \/ events[i].stage = "settled"
              \/ events[i].stage = "done" /\ events[i].notified
    /\ (Callback \in {"handlerResolved", "handlerRejected"} /\ out[1].arg \in WithoutLink) =>
           /\ \A k \in Did("POST") : out[k].arg # out[1].arg
           /\ Count("onError") = IF Callback = "handlerRejected" THEN 1 ELSE 0
           /\ Did("log") \subseteq {k \in DOMAIN out : out[k].arg # out[1].arg}
    /\ (Callback = "didHandleEvent" /\ out[1].arg \in WithoutLink) =>
           /\ GetQueueLength(Now) = 0 => Count("drain") = 1
           /\ (running /\ GetQueueLength(Now) < concurrency) => fetches # <<>>

\* The handler of the only event rejected, the event had no nack link, and its
\* didHandleEvent has emitted 'drain' and fetched again.
C26_Witness ==
    /\ Callback = "didHandleEvent"
    /\ out[1].arg \in WithoutLink
    /\ events[out[1].arg].outcome = "rejected"
    /\ Did("drain") # {}
    /\ Did("GET") # {}

\* C27: a stop() called with an empty queue returns a resolved promise, a GET
\* in flight or not; a stop() called with tasks waiting or running returns a
\* promise that is pending, and a pending promise of stop() is resolved only
\* in a callback that emits 'drain', after the emit.
C27_StopCompletion ==
    [][/\ out'[1].op = "stop" =>
              IF GetQueueLength(Now) = 0
              THEN /\ out' = <<E("stop", 0), E("resolve", 0)>>
                   /\ stopWaiting' = stopWaiting
              ELSE /\ out' = <<E("stop", 0), E("wait", 0)>>
                   /\ stopWaiting'
       /\ (out'[1].op # "stop" /\ Did("resolve")' # {}) =>
              /\ stopWaiting /\ ~stopWaiting'
              /\ \E k \in Did("drain")' : \A j \in Did("resolve")' : k < j
       /\ (stopWaiting /\ ~stopWaiting') => Did("drain")' # {}]_vars

\* stop() was called with an empty queue while a GET was in flight: its
\* promise is resolved and the request is still out.
C27_Witness ==
    /\ Callback = "stop"
    /\ GetQueueLength(Now) = 0
    /\ Did("resolve") # {}
    /\ fetches # <<>>
    /\ polling

\* C28: the handlers are called in the order of delivery, and so those of the
\* events of one response in the order of its entries: an event's handler has
\* not been called while the handler of an event delivered before it has not,
\* and a callback that calls several handlers calls them in that order. (That
\* events may end in another order is a matter of reachability: the witness.)
C28_HandlersStartInFetchOrder ==
    /\ \A i, j \in Ids :
           (i < j /\ events[j].calls > 0) => events[i].calls > 0
    /\ \A k, l \in Did("handler") :
           out[k].arg < out[l].arg => k < l

\* With concurrency 2, an event is done, acked by a POST, while an event
\* ahead of it in the delivery, whose handler was called first, is still with
\* its handler.
C28_Witness ==
    /\ concurrency = 2
    /\ \E i, j \in Ids :
           /\ i < j
           /\ events[i].stage = "handling"
           /\ events[j].stage = "done"
           /\ events[j].result = "ok"

====
